---- MODULE Spec2Model ----
(***************************************************************************)
(* A model of the RIP routing daemon of main.py: the routing table of      *)
(* RipEntry objects, the packet builder with poisoned reverse, the format  *)
(* check, update_table, timeout_check and the steps of mainloop.           *)
(*                                                                         *)
(* The specifications share the variables.  Spec runs one router (id 1)    *)
(* whose input sockets deliver arbitrary datagrams.  NetSpec / FairNetSpec *)
(* run two directly linked routers (ids 1 and 2) that exchange the         *)
(* datagrams they build themselves.  ProbeSpec runs router 1 with the      *)
(* neighbours 2 and 3 on longer sequences of a few chosen datagrams.       *)
(***************************************************************************)
EXTENDS Integers, Sequences, FiniteSets, TLC

VARIABLES
    table,      \* table[r]: routing_table of router r, a sequence of RipEntry
    pc,         \* pc[r]: position of router r in mainloop
    outputs,    \* outputs[r]: the configured output links of router r
    inbox,      \* inbox[r]: datagrams waiting on the input sockets of r
    sent,       \* the sendto calls of the last step, in order
    now,        \* time.time()
    received,   \* the number of datagrams read from outside so far
    last        \* the last step: its operation, router, datagram, table before

vars == <<table, pc, outputs, inbox, sent, now, received, last>>

----------------------------------------------------------------------------
(* Bounds *)

MaxId == 3          \* router ids are 1..MaxId
MaxRecs == 1        \* records after the sender's own in a datagram from outside
MaxRecv == 2        \* datagrams from outside read in one run
TickStep == 31      \* Spec: seconds that pass in the one silent wait of a run
NetStep == 11       \* NetSpec: seconds between two rounds of periodic updates
NetTicks == 3       \* NetSpec: number of rounds
MaxProbes == 4      \* ProbeSpec: datagrams read in one run

(* Program constants *)

INFINITY == 16
PERIODIC == 10
TIMEOUT == 30
HEADER == <<2, 2, 0, 0>>
StartTime == 1

Routers == 1..MaxId
MaxTime == StartTime + TickStep
NetMaxTime == StartTime + NetTicks * NetStep

----------------------------------------------------------------------------
(* class RipEntry *)

RipEntry(router_id, metric, next_hop, timer) ==
    [router_id |-> router_id, metric |-> metric, next_hop |-> next_hop, timer |-> timer]

Zeros(n) == [i \in 1..n |-> 0]

build_packet(entry) ==
    Zeros(7) \o <<entry.router_id>> \o Zeros(11) \o <<entry.metric>>

\* rec_packet[i] with the 0-based index of the source
Byte(rec_packet, i) == rec_packet[i + 1]

----------------------------------------------------------------------------
(* rip_packet *)

\* a plausible slip: the stored metric is advertised to every receiver
advertised_metric_plain(entry, receiver) == entry.metric

\* the metric rip_packet writes for entry in the packet for receiver
advertised_metric(entry, receiver) ==
    IF entry.next_hop = receiver THEN INFINITY ELSE entry.metric

RECURSIVE rip_records(_, _)
rip_records(rip_entries, receiver) ==
    IF rip_entries = <<>> THEN <<>>
    ELSE build_packet([Head(rip_entries) EXCEPT
                          !.metric = advertised_metric(Head(rip_entries), receiver)])
         \o rip_records(Tail(rip_entries), receiver)

\* the list handed to bytearray()
rip_packet(rip_entries, receiver) == HEADER \o rip_records(rip_entries, receiver)

\* bytearray(packet) raises ValueError unless every element is in range(256)
bytearray_ok(packet) == \A i \in 1..Len(packet) : packet[i] \in 0..255

----------------------------------------------------------------------------
(* format_check *)

\* a plausible slip: the header test is left out
format_check_noheader(rec_packet) ==
    /\ ~(Len(rec_packet) < 4)
    /\ ~((Len(rec_packet) - 4) % 20 # 0)

\* a plausible slip: the fragment test comes before the header test
format_error_reordered(rec_packet) ==
    IF Len(rec_packet) < 4 THEN 10
    ELSE IF (Len(rec_packet) - 4) % 20 # 0 THEN 12
    ELSE IF SubSeq(rec_packet, 1, 4) # HEADER THEN 11
    ELSE 0

\* the number of the error_msg format_check prints, 0 when it prints none
format_error(rec_packet) ==
    IF Len(rec_packet) < 4 THEN 10
    ELSE IF SubSeq(rec_packet, 1, 4) # HEADER THEN 11
    ELSE IF (Len(rec_packet) - 4) % 20 # 0 THEN 12
    ELSE 0

format_check(rec_packet) ==
    /\ ~(Len(rec_packet) < 4)
    /\ ~(SubSeq(rec_packet, 1, 4) # HEADER)
    /\ ~((Len(rec_packet) - 4) % 20 # 0)

----------------------------------------------------------------------------
(* update_table *)

\* the indexes the loops "index = 24; while index < len(rec_packet); index += 20" visit
RecordIndexes(rec_packet) ==
    {index \in 24..(Len(rec_packet) - 1) : (index - 24) % 20 = 0}

\* lines 148-154: the metric a sender entry with metric 16 gets: that of the
\* first record from index 24 on whose id is the local router, if there is one
contact_metric(rec_packet, self_id, metric) ==
    LET hits == {index \in RecordIndexes(rec_packet) :
                    Byte(rec_packet, index + 7) = self_id}
    IN  IF hits = {} THEN metric
        ELSE Byte(rec_packet, (CHOOSE index \in hits : \A j \in hits : index <= j) + 19)

\* lines 143-156: the first loop over the table
first_loop(rec_packet, routing_table, t) ==
    LET sender == Byte(rec_packet, 11)
        self_id == routing_table[1].router_id
    IN  [i \in 1..Len(routing_table) |->
            LET entry == routing_table[i] IN
            IF entry.router_id = sender
            THEN [entry EXCEPT !.timer = t,
                               !.metric = IF entry.metric = 16
                                          THEN contact_metric(rec_packet, self_id, entry.metric)
                                          ELSE entry.metric]
            ELSE entry]

current_routers(routing_table) ==
    {routing_table[i].router_id : i \in
        {j \in 1..Len(routing_table) : routing_table[j].router_id # routing_table[1].router_id}}

\* the indexes of the entries for the sender; metric_to_sender is bound iff there is one
sender_entries(rec_packet, routing_table) ==
    {i \in 1..Len(routing_table) : routing_table[i].router_id = Byte(rec_packet, 11)}

\* lines 165-172: a record for a destination of current_routers, on one entry for it
apply_known(entry, metric, sender, t) ==
    IF metric >= 16 /\ entry.next_hop = sender
    THEN [entry EXCEPT !.metric = 16, !.timer = 0]
    ELSE IF entry.metric > metric
         THEN [entry EXCEPT !.timer = t, !.metric = metric, !.next_hop = sender]
         ELSE [entry EXCEPT !.timer = t]

\* a plausible slip: a new entry gets the destination as its next hop, as in read_config
apply_record_direct(routing_table, id, metric, sender, known, t) ==
    IF id \in known
    THEN [i \in 1..Len(routing_table) |->
            IF routing_table[i].router_id = id
            THEN apply_known(routing_table[i], metric, sender, t)
            ELSE routing_table[i]]
    ELSE Append(routing_table, RipEntry(id, metric, id, t))

\* lines 160-175: one record
apply_record(routing_table, id, metric, sender, known, t) ==
    IF id \in known
    THEN [i \in 1..Len(routing_table) |->
            IF routing_table[i].router_id = id
            THEN apply_known(routing_table[i], metric, sender, t)
            ELSE routing_table[i]]
    ELSE Append(routing_table, RipEntry(id, metric, sender, t))

\* lines 158-175: the second loop, from index on
RECURSIVE apply_records(_, _, _, _, _, _)
apply_records(rec_packet, routing_table, index, metric_to_sender, known, t) ==
    IF ~(index < Len(rec_packet)) THEN routing_table
    ELSE apply_records(rec_packet,
                       apply_record(routing_table,
                                    Byte(rec_packet, index + 7),
                                    Byte(rec_packet, index + 19) + metric_to_sender,
                                    Byte(rec_packet, 11), known, t),
                       index + 20, metric_to_sender, known, t)

\* the exception lines 224-225 end with, "None" when update_table returns:
\* data[11] and rec_packet[11] need 12 bytes, the first record of the second
\* loop reads rec_packet[index+7] and rec_packet[index+19] and then the
\* local metric_to_sender, which is bound only if an entry matched the sender
update_raises(rec_packet, routing_table) ==
    IF Len(rec_packet) < 12 THEN "IndexError"
    ELSE IF ~(24 < Len(rec_packet)) THEN "None"
    ELSE IF ~(24 + 19 < Len(rec_packet)) THEN "IndexError"
    ELSE IF sender_entries(rec_packet, routing_table) = {} THEN "UnboundLocalError"
    ELSE IF \E index \in RecordIndexes(rec_packet) : ~(index + 19 < Len(rec_packet))
         THEN "IndexError"
         ELSE "None"

\* line 156: the local metric_to_sender when the first loop is done, the
\* metric of the last entry for the sender
metric_to_sender(rec_packet, routing_table, t) ==
    LET after_first == first_loop(rec_packet, routing_table, t)
        matches == sender_entries(rec_packet, routing_table)
    IN  IF matches = {} THEN 0     \* unbound; only read when a record follows
        ELSE after_first[CHOOSE i \in matches : \A j \in matches : j <= i].metric

\* the table update_table returns (when it returns)
update_table(rec_packet, routing_table, t) ==
    apply_records(rec_packet, first_loop(rec_packet, routing_table, t), 24,
                  metric_to_sender(rec_packet, routing_table, t),
                  current_routers(routing_table), t)

----------------------------------------------------------------------------
(* timeout_check *)

\* a plausible slip: the threshold is taken in minutes
expired_late(entry, t) == entry.timer # 0 /\ entry.timer < t - 60 * TIMEOUT

\* a plausible slip: the comparison is turned round
expired_young(entry, t) == entry.timer # 0 /\ entry.timer > t - TIMEOUT

expired(entry, t) == entry.timer # 0 /\ entry.timer < t - TIMEOUT

\* a plausible slip: a timed-out entry is removed from the table
timeout_check_remove(routing_table, t) ==
    SelectSeq(routing_table, LAMBDA entry : ~expired(entry, t))

timeout_check(routing_table, t) ==
    [i \in 1..Len(routing_table) |->
        IF expired(routing_table[i], t)
        THEN [routing_table[i] EXCEPT !.metric = 16, !.timer = 0]
        ELSE routing_table[i]]

----------------------------------------------------------------------------
(* read_config: the state after construction *)

Link(router_id, metric) == [router_id |-> router_id, metric |-> metric]

\* lines 79 and 88: the self entry, then one entry per output link
read_config(router_num, out, t) ==
    <<RipEntry(router_num, 0, router_num, t)>>
    \o [i \in 1..Len(out) |-> RipEntry(out[i].router_id, out[i].metric, out[i].router_id, t)]

Live == {r \in Routers : pc[r] # "off"}

NoStep == [op |-> "init", r |-> 0, data |-> <<>>, before |-> <<>>, prev |-> <<>>]

InitWith(out) ==
    /\ outputs = out
    /\ now = StartTime
    /\ table = [r \in Routers |-> IF out[r] = <<>> THEN <<>>
                                  ELSE read_config(r, out[r], StartTime)]
    /\ pc = [r \in Routers |-> IF out[r] = <<>> THEN "off" ELSE "start"]
    /\ inbox = [r \in Routers |-> {}]
    /\ sent = <<>>
    /\ received = 0
    /\ last = NoStep

\* router 1 alone, with one or with two configured neighbours
Configs ==
    { [r \in Routers |-> IF r = 1 THEN <<Link(2, 1)>> ELSE <<>>],
      [r \in Routers |-> IF r = 1 THEN <<Link(2, 1), Link(3, 2)>> ELSE <<>>] }

Init == \E out \in Configs : InitWith(out)

\* routers 1 and 2, directly linked with cost 1
NetConfig ==
    [r \in Routers |-> IF r = 1 THEN <<Link(2, 1)>>
                       ELSE IF r = 2 THEN <<Link(1, 1)>> ELSE <<>>]

NetInit == InitWith(NetConfig)

----------------------------------------------------------------------------
(* mainloop *)

\* the sendto calls of "for output in outputs: sendto(rip_packet(...))", up to
\* the first packet bytearray() refuses
\* a plausible slip: only the first output link is served
send_all_first(routing_table, out) ==
    IF out = <<>> THEN <<>>
    ELSE <<[to |-> Head(out).router_id,
            data |-> rip_packet(routing_table, Head(out).router_id)]>>

RECURSIVE send_all(_, _)
send_all(routing_table, out) ==
    IF out = <<>> THEN <<>>
    ELSE LET packet == rip_packet(routing_table, Head(out).router_id) IN
         IF bytearray_ok(packet)
         THEN <<[to |-> Head(out).router_id, data |-> packet]>>
              \o send_all(routing_table, Tail(out))
         ELSE <<>>

sends_ok(routing_table, out) ==
    \A i \in 1..Len(out) : bytearray_ok(rip_packet(routing_table, out[i].router_id))

\* the datagrams of msgs arrive on the input sockets of the running routers
deliver(msgs) ==
    [r \in Routers |->
        IF r \in Live
        THEN inbox[r] \cup {msgs[i].data : i \in {j \in 1..Len(msgs) : msgs[j].to = r}}
        ELSE inbox[r]]

\* a datagram that passes format_check and that update_table applies to the end
applied(data, routing_table) ==
    format_check(data) /\ update_raises(data, routing_table) = "None"

\* the record of a step of router r: prev is the datagram of the step before,
\* if that step applied one to the table of r
Step(op, r, data) ==
    [op |-> op, r |-> r, data |-> data, before |-> table[r],
     prev |-> IF last.op = "receive" /\ last.r = r /\ applied(last.data, last.before)
              THEN last.data ELSE <<>>]

\* lines 202-204: the router informs its neighbours of its own existence
Announce(r) ==
    /\ pc[r] = "start"
    /\ sent' = send_all(table[r], outputs[r])
    /\ inbox' = deliver(sent')
    /\ pc' = [pc EXCEPT ![r] = IF sends_ok(table[r], outputs[r]) THEN "periodic" ELSE "crashed"]
    /\ last' = Step("announce", r, <<>>)
    /\ UNCHANGED <<table, outputs, now, received>>

\* lines 207-212: the periodic update
Periodic(r) ==
    /\ pc[r] = "periodic"
    /\ IF table[r][1].timer < now - PERIODIC
       THEN /\ table' = [table EXCEPT ![r][1].timer = now]
            /\ sent' = send_all(table'[r], outputs[r])
            /\ inbox' = deliver(sent')
            /\ pc' = [pc EXCEPT ![r] = IF sends_ok(table'[r], outputs[r])
                                       THEN "sweep" ELSE "crashed"]
            /\ last' = Step("periodic", r, <<>>)
       ELSE /\ sent' = <<>>
            /\ pc' = [pc EXCEPT ![r] = "sweep"]
            /\ last' = Step("noperiodic", r, <<>>)
            /\ UNCHANGED <<table, inbox>>
    /\ UNCHANGED <<outputs, now, received>>

\* line 214: the expiry sweep
TimeoutCheck(r) ==
    /\ pc[r] = "sweep"
    /\ table' = [table EXCEPT ![r] = timeout_check(table[r], now)]
    /\ pc' = [pc EXCEPT ![r] = "select"]
    /\ sent' = <<>>
    /\ last' = Step("sweep", r, <<>>)
    /\ UNCHANGED <<outputs, inbox, now, received>>

\* lines 219-225: one datagram read from a readable socket; an exception is
\* not caught by line 227 and ends the process, whose table is then moot
Process(r, data) ==
    /\ pc[r] = "select"
    /\ sent' = <<>>
    /\ last' = Step("receive", r, data)
    /\ IF ~format_check(data)
       THEN UNCHANGED <<table, pc>>
       ELSE IF update_raises(data, table[r]) # "None"
            THEN /\ pc' = [pc EXCEPT ![r] = "crashed"]
                 /\ UNCHANGED table
            ELSE /\ table' = [table EXCEPT ![r] = update_table(data, table[r], now)]
                 /\ UNCHANGED pc
    /\ UNCHANGED <<outputs, now>>

\* line 217 returns, or the loop over the readable sockets ends
SelectDone(r) ==
    /\ pc[r] = "select"
    /\ pc' = [pc EXCEPT ![r] = "periodic"]
    /\ sent' = <<>>
    /\ last' = Step("select", r, <<>>)
    /\ UNCHANGED <<table, outputs, inbox, now, received>>

\* line 217: time passes while the routers wait in select with nothing to
\* read; select returns after 1 s, so that no periodic update is overdue
Elapse(step, max_time) ==
    /\ \A r \in Live : pc[r] \in {"select", "crashed"} /\ inbox[r] = {}
    /\ \E r \in Live : pc[r] = "select"
    /\ \A r \in Live : pc[r] = "select" => ~(table[r][1].timer < now - PERIODIC)
    /\ now + step <= max_time
    /\ now' = now + step
    /\ sent' = <<>>
    /\ last' = [NoStep EXCEPT !.op = "tick"]
    /\ UNCHANGED <<table, pc, outputs, inbox, received>>

\* Spec: the neighbours are silent for more than the timeout
Tick == Elapse(TickStep, MaxTime)

\* NetSpec: the time to the next periodic update passes
NetTick == Elapse(NetStep, NetMaxTime)

----------------------------------------------------------------------------
(* The datagrams an input socket can deliver to the single router of Spec *)

PktMetrics == {1, 16}
PktSenders == {2, 3}

Record(id, metric) == build_packet(RipEntry(id, metric, id, 0))

\* at most n records, for distinct destinations from lowest on, in ascending order
RECURSIVE Bodies(_, _)
Bodies(n, lowest) ==
    IF n = 0 THEN {<<>>}
    ELSE {<<>>} \cup
         UNION { {Record(id, metric) \o body : body \in Bodies(n - 1, id + 1)} :
                 id \in lowest..MaxId, metric \in PktMetrics }

WellFormed ==
    {HEADER \o Record(s, 0) \o body : s \in PktSenders, body \in Bodies(MaxRecs, 1)}

Malformed ==
    { <<2, 2, 0>>,
      <<2, 1, 0, 0>> \o Record(2, 0) \o Record(3, 1),
      HEADER \o <<0>>,
      HEADER \o Record(2, 0) \o Record(3, 1) \o <<0>> }

Datagrams == WellFormed \cup Malformed \cup {HEADER}

\* Spec: a datagram arrives from outside
Receive(r) ==
    /\ received < MaxRecv
    /\ \E data \in Datagrams : Process(r, data)
    /\ received' = received + 1
    /\ UNCHANGED inbox

\* NetSpec: a datagram another router sent arrives
Deliver(r) ==
    \E data \in inbox[r] :
        /\ Process(r, data)
        /\ inbox' = [inbox EXCEPT ![r] = inbox[r] \ {data}]
        /\ UNCHANGED received

Next ==
    \/ \E r \in Live : Announce(r)
    \/ \E r \in Live : Periodic(r)
    \/ \E r \in Live : TimeoutCheck(r)
    \/ \E r \in Live : Receive(r)
    \/ \E r \in Live : SelectDone(r)
    \/ Tick

Spec == Init /\ [][Next]_vars

NetNext ==
    \/ \E r \in Live : Announce(r)
    \/ \E r \in Live : Periodic(r)
    \/ \E r \in Live : TimeoutCheck(r)
    \/ \E r \in Live : Deliver(r)
    \/ \E r \in Live : SelectDone(r)
    \/ NetTick

NetSpec == NetInit /\ [][NetNext]_vars

\* every running router keeps executing mainloop, select hands over every
\* datagram that waits on a socket, and time passes
FairNetSpec ==
    /\ NetSpec
    /\ \A r \in Routers :
          /\ WF_vars(Announce(r))
          /\ WF_vars(Periodic(r))
          /\ WF_vars(TimeoutCheck(r))
          /\ WF_vars(SelectDone(r))
          /\ SF_vars(Deliver(r))
    /\ SF_vars(NetTick)

\* router 1 with the neighbours 2 and 3
ProbeInit ==
    InitWith([r \in Routers |-> IF r = 1 THEN <<Link(2, 1), Link(3, 2)>> ELSE <<>>])

\* datagrams of neighbours 2 and 3: 2 reaches router 1 at 1 and withdraws
\* itself; 3 offers a route to 2; 3 withdraws it; 2 sends a metric out of
\* range for a new destination, and a second new destination
Accepted ==
    { HEADER \o Record(2, 0) \o Record(1, 1) \o Record(2, 16),
      HEADER \o Record(3, 0) \o Record(2, 1),
      HEADER \o Record(3, 0) \o Record(2, 16),
      HEADER \o Record(2, 0) \o Record(MaxId + 1, 17) \o Record(MaxId + 2, 1) }

\* datagrams that fail one or two of the tests of format_check
Rejected ==
    { <<2, 2, 0>>,
      <<2, 1, 0, 0, 0>>,
      HEADER \o <<0>>,
      <<1, 2, 0, 0>> \o Record(2, 0) \o Record(MaxId + 1, 1) }

Probes == Accepted \cup Rejected

\* ProbeSpec: one of the chosen datagrams arrives
Probe(r) ==
    /\ received < MaxProbes
    /\ \E data \in Probes : Process(r, data)
    /\ received' = received + 1
    /\ UNCHANGED inbox

ProbeNext ==
    \/ \E r \in Live : Announce(r)
    \/ \E r \in Live : Periodic(r)
    \/ \E r \in Live : TimeoutCheck(r)
    \/ \E r \in Live : Probe(r)
    \/ \E r \in Live : SelectDone(r)
    \/ Tick

ProbeSpec == ProbeInit /\ [][ProbeNext]_vars

TypeOK ==
    /\ now \in Nat
    /\ received \in 0..MaxRecv \cup 0..MaxProbes

----------------------------------------------------------------------------
(* Vocabulary of the properties *)

\* the record rip_packet writes for the i-th table entry
RecordOf(packet, i) ==
    [id |-> Byte(packet, 4 + 20 * (i - 1) + 7),
     metric |-> Byte(packet, 4 + 20 * (i - 1) + 19)]

\* the metrics a datagram advertises for destination id (records from index 24 on)
AdvertisedFor(data, id) ==
    {Byte(data, index + 19) : index \in
        {j \in RecordIndexes(data) : Byte(data, j + 7) = id}}

\* destination, metric and next hop of every entry, in table order
Routes(routing_table) ==
    [i \in 1..Len(routing_table) |->
        <<routing_table[i].router_id, routing_table[i].metric, routing_table[i].next_hop>>]

RouteSet(routing_table) == {Routes(routing_table)[i] : i \in 1..Len(routing_table)}

Neighbours(r) == {outputs[r][i].router_id : i \in 1..Len(outputs[r])}

\* the last step applied a datagram to the table of last.r
Applied == last.op = "receive" /\ applied(last.data, last.before)

\* the entries of routing_table for destination id, in table order
EntriesFor(routing_table, id) ==
    SelectSeq(routing_table, LAMBDA entry : entry.router_id = id)

\* every entry after the first has one of neighbours as its next hop
NextHopsOK(routing_table, neighbours) ==
    \A i \in 2..Len(routing_table) : routing_table[i].next_hop \in neighbours

----------------------------------------------------------------------------
(* C1 - split horizon with poisoned reverse.  For every table a router can
   hold and every receiver id, the record rip_packet emits for an entry whose
   stored next_hop is the receiver carries that entry's id and metric 16; the
   same holds of every packet a step has just sent. *)
C1_SplitHorizon ==
    /\ \A r \in Live, receiver \in Routers :
          LET packet == rip_packet(table[r], receiver) IN
          \A i \in 1..Len(table[r]) :
              table[r][i].next_hop = receiver =>
                  RecordOf(packet, i) = [id |-> table[r][i].router_id, metric |-> 16]
    /\ \A k \in 1..Len(sent) :
          \A i \in 1..Len(table[last.r]) :
              table[last.r][i].next_hop = sent[k].to =>
                  RecordOf(sent[k].data, i)
                      = [id |-> table[last.r][i].router_id, metric |-> 16]

\* a packet was sent to a neighbour through which a learned destination is
\* reached with a metric below 16
C1_Witness ==
    \E k \in 1..Len(sent) : \E i \in 1..Len(table[last.r]) :
        /\ table[last.r][i].next_hop = sent[k].to
        /\ table[last.r][i].router_id # sent[k].to
        /\ table[last.r][i].metric < 16

(* C2 - metric bound.  Every entry of every table has a metric in 0..16. *)
C2_MetricBound ==
    \A r \in Live : \A i \in 1..Len(table[r]) : table[r][i].metric \in 0..16

(* C3 - unique keys.  No table holds two entries for the same destination id. *)
C3_UniqueKeys ==
    \A r \in Live : \A i, j \in 1..Len(table[r]) :
        table[r][i].router_id = table[r][j].router_id => i = j

(* C4 - the router stays alive.  No datagram read from a socket ends the
   process: no router is ever stopped by an unhandled exception. *)
C4_StaysAlive ==
    \A r \in Live : pc[r] # "crashed"

(* C5 - a malformed datagram is discarded.  After a step that read a datagram
   shorter than 4 bytes, with a wrong header or with a body that is not a
   multiple of 20 bytes, the table is the one before the step and the router
   is still in its loop (update_table was not run). *)
C5_MalformedDiscarded ==
    ( /\ last.op = "receive"
      /\ \/ Len(last.data) < 4
         \/ SubSeq(last.data, 1, 4) # <<2, 2, 0, 0>>
         \/ (Len(last.data) - 4) % 20 # 0 )
    => /\ table[last.r] = last.before
       /\ pc[last.r] = "select"

\* a datagram with a wrong header was read whose records, had they been
\* applied, would have changed the table
C5_Witness ==
    /\ last.op = "receive"
    /\ Len(last.data) >= 24
    /\ SubSeq(last.data, 1, 4) # <<2, 2, 0, 0>>
    /\ Len(last.before) >= 2
    /\ update_table(last.data, last.before, now) # last.before

(* C6 - triggered update.  After a step that applied a datagram and changed a
   destination, metric or next hop of the table, the step has sent to every
   configured neighbour the packet built for it from the new table. *)
C6_TriggeredUpdate ==
    (Applied /\ Routes(table[last.r]) # Routes(last.before))
    => \A n \in Neighbours(last.r) :
          \E k \in 1..Len(sent) :
              sent[k] = [to |-> n, data |-> rip_packet(table[last.r], n)]

(* C7 - expiry.  After an expiry sweep, every entry other than the first whose
   timer was running and older than 30 s when the sweep began has metric 16
   and timer 0. *)
C7_Expiry ==
    last.op = "sweep" =>
        \A i \in 2..Len(last.before) :
            (last.before[i].timer # 0 /\ now - last.before[i].timer > 30)
            => (table[last.r][i].metric = 16 /\ table[last.r][i].timer = 0)

\* a sweep poisoned a reachable entry although no datagram was ever read
C7_Witness ==
    /\ last.op = "sweep"
    /\ received = 0
    /\ \E i \in 2..Len(last.before) :
          /\ last.before[i].timer # 0
          /\ now - last.before[i].timer > 30
          /\ last.before[i].metric < 16
          /\ table[last.r][i].metric = 16

(* C8 - poisoning by the next hop.  After a datagram from a configured
   neighbour S was applied that advertises destination D with metric 16 (and
   with no other metric), every entry for D that had next_hop S has metric 16
   and timer 0. *)
C8_PoisonByNextHop ==
    Applied =>
        \A i \in 1..Len(last.before) :
            ( /\ Byte(last.data, 11) \in Neighbours(last.r)
              /\ last.before[i].next_hop = Byte(last.data, 11)
              /\ AdvertisedFor(last.data, last.before[i].router_id) = {16} )
            => (table[last.r][i].metric = 16 /\ table[last.r][i].timer = 0)

\* the same for destinations other than the local router: holds of the code
C8_PoisonByNextHopRemote ==
    Applied =>
        \A i \in 1..Len(last.before) :
            ( /\ Byte(last.data, 11) \in Neighbours(last.r)
              /\ last.before[i].next_hop = Byte(last.data, 11)
              /\ last.before[i].router_id # last.before[1].router_id
              /\ AdvertisedFor(last.data, last.before[i].router_id) = {16} )
            => (table[last.r][i].metric = 16 /\ table[last.r][i].timer = 0)

\* the cost of the link from r to its neighbour d
LinkCost(r, d) ==
    outputs[r][CHOOSE i \in 1..Len(outputs[r]) : outputs[r][i].router_id = d].metric

\* two directly linked routers: each reaches the other over the link
Converged ==
    \A r \in Live : \A d \in Live \ {r} :
        \E i \in 1..Len(table[r]) :
            /\ table[r][i].router_id = d
            /\ table[r][i].metric = LinkCost(r, d)
            /\ table[r][i].next_hop = d

(* C9 - convergence.  With routers that keep running their loop and datagrams
   that are delivered, every table eventually holds, for every other router,
   an entry with the shortest-path cost and a next hop on a shortest path, and
   keeps it. *)
C9_Convergence == <>[]Converged

(* C10 - idempotence.  After a well-formed datagram from a sender with a table
   entry was applied directly after the same datagram had been applied, the
   table has the same destinations, metrics and next hops as before the second
   application. *)
C10_Idempotent ==
    ( /\ Applied
      /\ last.prev = last.data
      /\ sender_entries(last.data, last.before) # {} )
    => RouteSet(table[last.r]) = RouteSet(last.before)

(* C11 - periodic update.  A pass through the periodic check with a self-entry
   timestamp more than 10 s old sets that timestamp to the current time and
   sends to every configured neighbour, in order, one packet with one record
   for every entry of the table; a pass with a younger timestamp sends
   nothing; so after the check the timestamp is never more than 10 s old. *)
C11_PeriodicUpdate ==
    /\ last.op = "periodic" =>
          /\ last.before[1].timer < now - 10
          /\ table[last.r][1].timer = now
          /\ Len(sent) = Len(outputs[last.r])
          /\ \A k \in 1..Len(sent) :
                /\ sent[k].to = outputs[last.r][k].router_id
                /\ Len(sent[k].data) = 4 + 20 * Len(table[last.r])
                /\ \A i \in 1..Len(table[last.r]) :
                      RecordOf(sent[k].data, i).id = table[last.r][i].router_id
    /\ last.op = "noperiodic" =>
          /\ ~(last.before[1].timer < now - 10)
          /\ sent = <<>>
    /\ \A r \in Live : pc[r] = "sweep" => ~(table[r][1].timer < now - 10)

\* a periodic update went to two neighbours from a table that holds learned
\* entries next to the configured ones
C11_Witness ==
    /\ last.op = "periodic"
    /\ Len(sent) = 2
    /\ Len(table[last.r]) > Len(outputs[last.r]) + 1

(* C12 - self-entry.  In every state the first entry of every table is for the
   local router, with metric 0, next hop the local router and a running
   timer: neither an applied datagram nor the expiry sweep changes its metric
   or next hop. *)
C12_SelfEntry ==
    \A r \in Live :
        /\ table[r][1].router_id = r
        /\ table[r][1].metric = 0
        /\ table[r][1].next_hop = r
        /\ table[r][1].timer # 0

\* a sweep poisoned an entry that a datagram had added for the local id, and
\* left the first entry alone
C12_Witness ==
    /\ last.op = "sweep"
    /\ \E i \in 2..Len(last.before) :
          /\ last.before[i].router_id = last.r
          /\ last.before[i].timer # 0
          /\ table[last.r][i].timer = 0

(* C13 - next hops.  The table read_config builds has only configured
   neighbours as next hops of the entries after the first, and every step
   keeps it so, a step that applies a datagram provided the datagram names a
   configured neighbour as its sender; so a router all of whose datagrams
   come from its configured neighbours has only them as next hops. *)
C13_NextHop ==
    /\ last.op = "init" =>
          \A r \in Live : NextHopsOK(table[r], Neighbours(r))
    /\ ( /\ last.r \in Live
          /\ NextHopsOK(last.before, Neighbours(last.r))
          /\ (Applied => Byte(last.data, 11) \in Neighbours(last.r)) )
       => NextHopsOK(table[last.r], Neighbours(last.r))
    /\ \A r \in Live :
          PktSenders \subseteq Neighbours(r) => NextHopsOK(table[r], Neighbours(r))

\* a datagram from a configured neighbour added an entry for a destination
\* that is reached through that neighbour and is not the neighbour itself
C13_Witness ==
    /\ Applied
    /\ Byte(last.data, 11) \in Neighbours(last.r)
    /\ Len(table[last.r]) > Len(last.before)
    /\ LET entry == table[last.r][Len(table[last.r])] IN
          /\ entry.next_hop = Byte(last.data, 11)
          /\ entry.router_id \notin {last.r, entry.next_hop}

(* C14 - no deletion.  No step of a router removes an entry from its table:
   after the step the table is at least as long as before and holds the same
   destination ids at the same places; an entry the expiry sweep times out is
   kept, with metric 16. *)
C14_NoDeletion ==
    /\ last.r \in Live =>
          /\ Len(table[last.r]) >= Len(last.before)
          /\ \A i \in 1..Len(last.before) :
                table[last.r][i].router_id = last.before[i].router_id
    /\ last.op = "sweep" =>
          \A i \in 1..Len(last.before) :
              (last.before[i].timer # 0 /\ last.before[i].timer < now - 30) =>
                  /\ i <= Len(table[last.r])
                  /\ table[last.r][i].router_id = last.before[i].router_id
                  /\ table[last.r][i].metric = 16

\* a sweep timed out a learned entry for a destination that is no neighbour,
\* and the table still has it
C14_Witness ==
    /\ last.op = "sweep"
    /\ \E i \in 2..Len(last.before) :
          /\ last.before[i].timer # 0
          /\ last.before[i].timer < now - 30
          /\ last.before[i].metric < 16
          /\ last.before[i].router_id \notin Neighbours(last.r) \cup {last.r}
          /\ table[last.r][i].router_id = last.before[i].router_id

(* C15 - authoritative next hop.  After a datagram from sender S was applied
   that has one record for a destination D other than the local router, every
   entry for D that had next_hop S has the metric min(advertised metric + cost
   to S, 16), also when that is more than the stored metric, and, when that is
   below 16, a timer set to the time of the step. *)
C15_AuthoritativeNextHop ==
    Applied =>
        \A i \in 1..Len(last.before) : \A advertised \in 0..255 :
            ( /\ last.before[i].next_hop = Byte(last.data, 11)
              /\ last.before[i].router_id # last.r
              /\ AdvertisedFor(last.data, last.before[i].router_id) = {advertised} )
            => LET sum == advertised + metric_to_sender(last.data, last.before, now)
                   candidate == IF sum < 16 THEN sum ELSE 16
               IN  /\ table[last.r][i].metric = candidate
                   /\ candidate < 16 => table[last.r][i].timer = now

(* C17 - recovery from STALE.  After a datagram from sender S was applied, an
   entry that was stale before (metric 16, timer 0) is active (metric below
   16, timer running) if the datagram advertises its destination afresh with
   a metric below 16: in a record after the first, with advertised metric +
   cost to S below 16, or, for the entry of the neighbour S itself, in the
   record S sends for itself. *)
C17_Recovery ==
    Applied =>
        \A i \in 2..Len(last.before) :
            ( /\ last.before[i].metric = 16
              /\ last.before[i].timer = 0
              /\ last.before[i].router_id # last.r
              /\ \/ /\ last.before[i].router_id # Byte(last.data, 11)
                    /\ \E advertised \in 0..15 :
                          /\ AdvertisedFor(last.data, last.before[i].router_id) = {advertised}
                          /\ advertised + metric_to_sender(last.data, last.before, now) < 16
                 \/ /\ last.before[i].router_id = Byte(last.data, 11)
                    /\ Byte(last.data, 11) \in Neighbours(last.r)
                    /\ Byte(last.data, 4 + 7) = Byte(last.data, 11)
                    /\ Byte(last.data, 4 + 19) < 16 )
            => /\ table[last.r][i].metric < 16
               /\ table[last.r][i].timer # 0

(* C20 - timer refresh only from the source of the route.  After a datagram
   from a configured neighbour S was applied that has one record for a destination D other
   than S and the local router, an entry for D whose next_hop was not S and
   whose metric the candidate (advertised + cost to S) does not strictly
   improve is as it was before, timer included; so a stale entry that keeps
   metric 16 keeps timer 0. *)
C20_TimerFromSource ==
    Applied =>
        \A i \in 2..Len(last.before) : \A advertised \in 0..255 :
            ( /\ Byte(last.data, 11) \in Neighbours(last.r)
              /\ last.before[i].next_hop # Byte(last.data, 11)
              /\ last.before[i].router_id \notin {last.r, Byte(last.data, 11)}
              /\ AdvertisedFor(last.data, last.before[i].router_id) = {advertised}
              /\ ~(advertised + metric_to_sender(last.data, last.before, now)
                       < last.before[i].metric) )
            => table[last.r][i] = last.before[i]

(* C18 - order of the format tests.  For every datagram read, format_check
   reports TooShort (10) if the length is below 4, else BadHeader (11) if
   bytes 0-3 are not 2,2,0,0, else Fragmented (12) if (length - 4) mod 20 is
   not 0, and accepts exactly the datagrams that pass all three; a datagram
   of length 5 with the right header is reported Fragmented and leaves the
   table as it was. *)
C18_FormatOrder ==
    last.op = "receive" =>
        LET d == last.data
            long == Len(d) >= 4
            header == long /\ d[1] = 2 /\ d[2] = 2 /\ d[3] = 0 /\ d[4] = 0
            whole == (Len(d) - 4) % 20 = 0
        IN  /\ ~long => format_error(d) = 10
            /\ (long /\ ~header) => format_error(d) = 11
            /\ (header /\ ~whole) => format_error(d) = 12
            /\ format_check(d) <=> (header /\ whole)
            /\ format_check(d) <=> format_error(d) = 0
            /\ (header /\ Len(d) = 5) =>
                  (format_error(d) = 12 /\ table[last.r] = last.before)

\* a datagram was read that fails the header test and the fragment test
C18_Witness ==
    /\ last.op = "receive"
    /\ Len(last.data) >= 4
    /\ SubSeq(last.data, 1, 4) # <<2, 2, 0, 0>>
    /\ (Len(last.data) - 4) % 20 # 0

(* C16 - strict improvement for other senders.  After a datagram from a
   configured neighbour S was applied that has one record for a destination D
   other than the local router, an entry for D whose next_hop was not S has a
   new metric or next hop only if the candidate (advertised metric + cost to
   S) is strictly below the stored metric, and then it has the candidate as
   metric and S as next hop; on an equal or larger candidate metric and next
   hop are the stored ones. *)
C16_StrictImprovement ==
    Applied =>
        \A i \in 2..Len(last.before) : \A advertised \in 0..255 :
            ( /\ Byte(last.data, 11) \in Neighbours(last.r)
              /\ last.before[i].next_hop # Byte(last.data, 11)
              /\ last.before[i].router_id # last.r
              /\ AdvertisedFor(last.data, last.before[i].router_id) = {advertised} )
            => LET candidate == advertised + metric_to_sender(last.data, last.before, now)
               IN  \/ /\ table[last.r][i].metric = last.before[i].metric
                      /\ table[last.r][i].next_hop = last.before[i].next_hop
                   \/ /\ candidate < last.before[i].metric
                      /\ table[last.r][i].metric = candidate
                      /\ table[last.r][i].next_hop = Byte(last.data, 11)

(* C19 - a record with a metric out of range is skipped.  After a datagram was
   applied, a destination for which it has a record with an advertised metric
   outside 0..16 has the entries it had before, and a destination new to the
   table for which it has a record with a metric in 0..16 has an entry. *)
C19_SemanticErrorSkipped ==
    Applied =>
        \A index \in RecordIndexes(last.data) :
            LET id == Byte(last.data, index + 7)
                metric == Byte(last.data, index + 19)
            IN  /\ metric \notin 0..16 =>
                      EntriesFor(table[last.r], id) = EntriesFor(last.before, id)
                /\ (metric \in 0..16 /\ EntriesFor(last.before, id) = <<>>) =>
                      EntriesFor(table[last.r], id) # <<>>

====
